---- MODULE Spec2Model ----
(***************************************************************************)
(* Model of the market-data ingestion worker                               *)
(* (src/workers/market-ingest/src/index.ts) together with the two stores   *)
(* it talks to: the Redis point cache / pub-sub channel and the ClickHouse *)
(* table market_data.ticks (src/unnamed/part_000).                         *)
(*                                                                         *)
(* The worker runs on a single-threaded event loop.  Every action below is *)
(* one run-to-completion turn of that loop: the code executed between two  *)
(* `await`s.  The Redis client uses one connection, so its commands are    *)
(* answered in the order they were sent (redisQ).  ClickHouse inserts are  *)
(* independent HTTP requests and may settle in any order (inflight).       *)
(*                                                                         *)
(* The second part models the GraphQL resolvers of the API                 *)
(* (src/api/src/auth/middleware.ts) over the PostgreSQL tables of          *)
(* src/unnamed/part_001: every action is one resolver call, from the       *)
(* request to the response.                                                *)
(***************************************************************************)
EXTENDS Integers, Sequences, FiniteSets, TLC

\* ---------------------------------------------------------------- bounds
\* Number of processTick calls explored.
MaxTicks == 2
\* Number of failed ClickHouse inserts explored.
MaxFailures == 1
\* index.ts:21 sets BATCH_SIZE to 100; the model explores a scaled-down
\* threshold, all guards use it exactly as the code uses BATCH_SIZE.
BATCH_SIZE == 2

Symbols == {"AAPL", "MSFT"}
Volumes == {100}
\* The (symbol, timestamp) pairs a tick may carry: two ticks may share
\* symbol and instant, share the symbol only, or differ in symbol.
Events == {<<"AAPL", 1>>, <<"AAPL", 2>>, <<"MSFT", 1>>}
\* The price carried by the c-th processTick call: every call carries its
\* own quote, so a cached price identifies the tick that wrote it.
Quote(c) == 100 + c

\* A key that has never been set.
Absent == 0

VARIABLES
    tickBuffer,     \* MarketDataIngestor.tickBuffer
    batchInterval,  \* TRUE while the setInterval handle is armed
    submitted,      \* ticks handed to processTick, in call order
    pc,             \* position of each processTick call
    redisQ,         \* commands sent to Redis and not yet answered (FIFO)
    redisOpen,      \* FALSE once QUIT has been answered
    redis,          \* Redis key space: key -> value
    published,      \* messages delivered on channel market:ticks
    writes,         \* every clickhouse.insert call, in call order, with
                    \* its trigger, its awaiting call and how it settled
    store,          \* rows of market_data.ticks, in insertion order
    phase,          \* position of shutdown()
    \* ---- history, read only by the properties
    pushed,         \* ticks appended to tickBuffer, in push order
    owedAtPush,     \* id -> ids failed and not acked when id was pushed
    cacheWrites,    \* <<id, key>> for every SET that Redis applied
    atTimer,        \* ids of the ticks found in the buffer by a timer firing
    atShutdown,     \* number of calls made when shutdown() began (-1: not yet)
    \* ---- the API process
    db,             \* the PostgreSQL tables the resolvers query
    outbox,         \* tasks and events the resolvers sent out, in order
    response        \* what the last resolver call returned, and to whom

workerVars == <<tickBuffer, batchInterval, submitted, pc, redisQ, redisOpen,
                redis, published, writes, store, phase, pushed, owedAtPush,
                cacheWrites, atTimer, atShutdown>>

apiVars == <<db, outbox, response>>

vars == <<workerVars, apiVars>>

\* ------------------------------------------------------------- helpers
Range(s) == {s[i] : i \in 1..Len(s)}

Ids(s) == {s[i].id : i \in 1..Len(s)}

IsPrefix(s, t) == Len(s) <= Len(t) /\ \A i \in 1..Len(s) : s[i] = t[i]

RECURSIVE Flatten(_)
Flatten(ss) == IF ss = <<>> THEN <<>> ELSE Head(ss) \o Flatten(Tail(ss))

\* interface MarketTick.  id stands for the identity of the JS object.
MarketTick(i, sym, p, v, ts) ==
    [id |-> i, symbol |-> sym, price |-> p, volume |-> v, timestamp |-> ts]

\* Redis keys written by processTick.
PriceKey(sym) == sym
TimestampKey(sym) == sym \o ":timestamp"
Keys == {PriceKey(s) : s \in Symbols} \cup {TimestampKey(s) : s \in Symbols}

\* batch.map((tick) => ({symbol, price, volume, timestamp}))
Row(tick) ==
    [symbol |-> tick.symbol, price |-> tick.price, volume |-> tick.volume,
     timestamp |-> tick.timestamp]

RECURSIVE Rows(_)
Rows(batch) ==
    IF batch = <<>> THEN <<>> ELSE <<Row(Head(batch))>> \o Rows(Tail(batch))

\* ORDER BY (symbol, timestamp): the sorting key of market_data.ticks.
OrderBy(row) == <<row.symbol, row.timestamp>>

\* Mutant of ReplacingMergeTree: a plain MergeTree keeps every row.
PlainMergeTree(rows) == rows

\* ENGINE = ReplacingMergeTree(): a merge keeps, for each sorting key, the
\* row that was inserted last.
RECURSIVE ReplacingMergeTree(_)
ReplacingMergeTree(rows) ==
    IF rows = <<>> THEN <<>>
    ELSE LET h == Head(rows)
             t == Tail(rows)
         IN  IF \E i \in 1..Len(t) : OrderBy(t[i]) = OrderBy(h)
             THEN ReplacingMergeTree(t)
             ELSE <<h>> \o ReplacingMergeTree(t)

\* Mutant of Push: the tick is put at the head of the buffer.
PushFront(buf, tick) == <<tick>> \o buf

\* this.tickBuffer.push(tick)
Push(buf, tick) == Append(buf, tick)

\* Mutant of ThresholdReached: strict comparison.
ThresholdExceeded(buf) == Len(buf) > BATCH_SIZE

\* this.tickBuffer.length >= BATCH_SIZE
ThresholdReached(buf) == Len(buf) >= BATCH_SIZE

\* Mutant of Splice: the array keeps the elements it returns (a slice).
SpliceKept(buf) == [taken |-> SubSeq(buf, 1, Len(buf)), rest |-> buf]

\* this.tickBuffer.splice(0, this.tickBuffer.length): the removed elements
\* and what is left in the array.
Splice(buf) == [taken |-> SubSeq(buf, 1, Len(buf)), rest |-> <<>>]

\* Mutant of Unshift: the failed batch is discarded.
UnshiftDropped(buf, batch) == buf

\* Mutant of Unshift: the failed batch is put behind the newer ticks.
UnshiftBack(buf, batch) == buf \o batch

\* this.tickBuffer.unshift(...batch)
Unshift(buf, batch) == batch \o buf

\* Mutant of AfterSetPrice: the timestamp key is never written.
AfterSetPriceSkip == "publish"

\* processTick: the command awaited after `redis.set(tick.symbol, ...)`.
AfterSetPrice == "set_ts"

\* The value a processTick call writes with its pending SET.
SetKey(tick, at) ==
    IF at = "set_price" THEN PriceKey(tick.symbol)
    ELSE TimestampKey(tick.symbol)

\* Times at which a marketPrice request may be served (`new Date()`).
RequestTimes == {2, 3}

\* resolvers.Query.marketPrice served at time now, once a price is cached:
\* only the price key is read; the timestamp is the time of the request.
marketPrice(sym, now) ==
    [symbol |-> sym, price |-> redis[PriceKey(sym)], timestamp |-> now]

\* Mutant of SetValue: a tick older than the cached one leaves the key as
\* it is.
SetValueIfNewer(tick, at) ==
    IF redis[TimestampKey(tick.symbol)] > tick.timestamp
    THEN redis[IF at = "set_price" THEN PriceKey(tick.symbol)
                                   ELSE TimestampKey(tick.symbol)]
    ELSE IF at = "set_price" THEN tick.price ELSE tick.timestamp

SetValue(tick, at) == IF at = "set_price" THEN tick.price ELSE tick.timestamp

\* Insert calls that have not settled.
inflight == {w \in 1..Len(writes) : writes[w].result = "pending"}

\* Ids of the ticks whose insert resolved.
acked ==
    UNION {Ids(writes[w].batch) :
              w \in {x \in 1..Len(writes) : writes[x].result = "ok"}}

\* Rejected inserts, and the ids of the ticks they carried.
failed == {w \in 1..Len(writes) : writes[w].result = "fail"}

failures == Cardinality(failed)

failedEver == UNION {Ids(writes[w].batch) : w \in failed}

\* Ticks that were in a rejected insert and are not yet acknowledged.
Owed == failedEver \ acked


\* ------------------------------------------------------------ API: data
\* Number of portfolios, of holdings rows and report rows, and of RAG
\* answers explored.
MaxPortfolios == 2
MaxRows == 1
MaxAnswers == 1

\* The seeded tenants.
Tenants == {"tenant-1", "tenant-2"}

\* context.user of a request whose token was verified: one user of each
\* tenant.  (The present authMiddleware maps every token to one mock user
\* of tenant-1; the resolvers take whatever user the context carries.)
Users == {[id |-> "dev-user-1", tenantId |-> "tenant-1"],
          [id |-> "dev-user-2", tenantId |-> "tenant-2"]}

\* context.user of a request without a Bearer token: authMiddleware
\* returns null.
Anonymous == [id |-> "", tenantId |-> ""]

Callers == Users \cup {Anonymous}

\* The portfolio ids a request may name, existing or not.
PortfolioIds == 1..MaxPortfolios

\* generateReport refuses once reports_generated has reached this value.
ReportQuota == 100

\* The `iterations` argument of generateReport (its default).
Iterations == {5000}

\* The `holdings` argument of importHoldings: one holding; a quantity of 0
\* violates CHECK (quantity > 0).
HoldingInputs ==
    {<<[symbol |-> "aapl", quantity |-> 10]>>,
     <<[symbol |-> "MSFT", quantity |-> 0]>>}

\* llmTokensUsed of an answer of the RAG service.
AnswerTokens == {1}

\* holding.symbol.toUpperCase() on the symbols of HoldingInputs.
ToUpperCase(str) == IF str = "aapl" THEN "AAPL" ELSE str

\* The tables of part_001 before any request.  Columns that no resolver
\* compares are left out.  rls tells whether the role of the connection
\* pool is subject to the row-level-security policy of `portfolios`
\* (owners and superusers are not); generated is reports_generated of
\* each tenant, which the report worker maintains.
Database(rls, generated) ==
    [row_security |-> rls,
     portfolios |-> <<>>,
     holdings |-> <<>>,
     risk_metrics |-> <<>>,
     reports |-> <<>>,
     tenant_usage |-> [t \in Tenants |->
                          [reports_generated |-> generated[t],
                           llm_tokens_used |-> 0]]]

\* No resolver has been called.
NoResponse == [op |-> "", tenant |-> "", error |-> "", portfolios |-> {}]

\* ---------------------------------------------------------------- Init
\* State after `new MarketDataIngestor()`: empty buffer, timer armed.
InitIngestor ==
    /\ tickBuffer = <<>>
    /\ batchInterval = TRUE
    /\ submitted = <<>>
    /\ pc = <<>>
    /\ redisQ = <<>>
    /\ redisOpen = TRUE
    /\ redis = [k \in Keys |-> Absent]
    /\ published = <<>>
    /\ writes = <<>>
    /\ store = <<>>
    /\ phase = "running"
    /\ pushed = <<>>
    /\ owedAtPush = <<>>
    /\ cacheWrites = {}
    /\ atTimer = {}
    /\ atShutdown = -1

\* The worker starts; the API has served no request yet.
Init ==
    /\ InitIngestor
    /\ db = Database(FALSE, [t \in Tenants |-> 0])
    /\ outbox = <<>>
    /\ response = NoResponse

\* Mutant of FlushBatch: a flush is skipped while an insert is pending.
FlushBatchSerialized(buf, by, c) ==
    IF Len(buf) = 0 \/ inflight # {}
    THEN /\ tickBuffer' = buf
         /\ writes' = writes
    ELSE LET sp == Splice(buf)
         IN  /\ tickBuffer' = sp.rest
             /\ writes' = Append(writes, [batch |-> sp.taken, by |-> by,
                                         call |-> c, result |-> "pending"])

\* Mutant of FlushBatch: the empty-buffer test is missing.
FlushBatchUnguarded(buf, by, c) ==
    LET sp == Splice(buf)
    IN  /\ tickBuffer' = sp.rest
        /\ writes' = Append(writes, [batch |-> sp.taken, by |-> by,
                                    call |-> c, result |-> "pending"])

\* flushBatch up to its `await clickhouse.insert(...)`, run on buffer buf
\* for trigger `by`; c is the processTick call that awaits it (0: none).
FlushBatch(buf, by, c) ==
    IF Len(buf) = 0
    THEN /\ tickBuffer' = buf
         /\ writes' = writes
    ELSE LET sp == Splice(buf)
         IN  /\ tickBuffer' = sp.rest
             /\ writes' = Append(writes, [batch |-> sp.taken, by |-> by,
                                         call |-> c, result |-> "pending"])

\* Mutant of Resumes: a call also waits until no insert is pending.
ResumesWhenIdle(c) ==
    pc[c] \in {"set_price", "set_ts", "publish"} /\ inflight = {}

\* A processTick call suspended at one of its three Redis awaits resumes
\* on the reply to its own command; it awaits nothing else before its push.
Resumes(c) == pc[c] \in {"set_price", "set_ts", "publish"}

\* processTick(tick) up to its first await: the first SET is sent; limit
\* bounds the number of calls explored.  After
\* QUIT the client rejects the command at once.
ProcessTickWithin(limit, sym, p, v, ts) ==
    /\ phase # "exited"
    /\ Len(submitted) < limit
    /\ LET c == Len(submitted) + 1
       IN  /\ submitted' = Append(submitted, MarketTick(c, sym, p, v, ts))
           /\ owedAtPush' = Append(owedAtPush, {})
           /\ IF redisOpen
              THEN /\ pc' = Append(pc, "set_price")
                   /\ redisQ' = Append(redisQ, c)
              ELSE /\ pc' = Append(pc, "rejected")
                   /\ redisQ' = redisQ
    /\ UNCHANGED <<tickBuffer, batchInterval, redisOpen, redis, published,
                   writes, store, phase, pushed, cacheWrites>>
    /\ UNCHANGED <<atTimer, atShutdown>>
    /\ UNCHANGED apiVars

\* processTick(tick) within the number of calls the model explores.
ProcessTick(sym, p, v, ts) == ProcessTickWithin(MaxTicks, sym, p, v, ts)

\* Redis answers the oldest SET of call c and processTick resumes: on
\* success it sends its next command, on an error the call rejects.
RedisSetReply(ok) ==
    /\ phase # "exited"
    /\ redisQ # <<>>
    /\ Head(redisQ) # 0
    /\ LET c == Head(redisQ)
           tick == submitted[c]
           next == IF pc[c] = "set_price" THEN AfterSetPrice ELSE "publish"
       IN  /\ Resumes(c)
           /\ pc[c] \in {"set_price", "set_ts"}
           /\ IF ok
              THEN /\ redis' = [redis EXCEPT ![SetKey(tick, pc[c])] =
                                                SetValue(tick, pc[c])]
                   /\ cacheWrites' = cacheWrites \cup
                                        {<<c, SetKey(tick, pc[c])>>}
                   /\ pc' = [pc EXCEPT ![c] = next]
                   /\ redisQ' = Append(Tail(redisQ), c)
              ELSE /\ pc' = [pc EXCEPT ![c] = "rejected"]
                   /\ redisQ' = Tail(redisQ)
                   /\ UNCHANGED <<redis, cacheWrites>>
    /\ UNCHANGED <<tickBuffer, batchInterval, submitted, redisOpen, published,
                   writes, store, phase, pushed, owedAtPush>>
    /\ UNCHANGED <<atTimer, atShutdown>>
    /\ UNCHANGED apiVars

\* Mutant of Publish: the message is delivered twice.
PublishTwice(channel, tick) == channel \o <<tick, tick>>

\* redis.publish('market:ticks', JSON.stringify(tick)): one message.
Publish(channel, tick) == Append(channel, tick)

\* Redis answers the PUBLISH of call c and processTick resumes: it pushes
\* the tick and, at the threshold, starts a flush and awaits it.
RedisPublishReply(ok) ==
    /\ phase # "exited"
    /\ redisQ # <<>>
    /\ Head(redisQ) # 0
    /\ LET c == Head(redisQ)
           tick == submitted[c]
           buf == Push(tickBuffer, tick)
       IN  /\ Resumes(c)
           /\ pc[c] = "publish"
           /\ redisQ' = Tail(redisQ)
           /\ IF ok
              THEN /\ published' = Publish(published, tick)
                   /\ pushed' = Append(pushed, tick)
                   /\ owedAtPush' = [owedAtPush EXCEPT ![c] = Owed]
                   /\ IF ThresholdReached(buf)
                      THEN /\ FlushBatch(buf, "threshold", c)
                           /\ pc' = [pc EXCEPT ![c] = "flush"]
                      ELSE /\ tickBuffer' = buf
                           /\ pc' = [pc EXCEPT ![c] = "done"]
                           /\ writes' = writes
              ELSE /\ pc' = [pc EXCEPT ![c] = "rejected"]
                   /\ UNCHANGED <<published, pushed, owedAtPush, tickBuffer,
                                  writes>>
    /\ UNCHANGED <<batchInterval, submitted, redisOpen, redis, store, phase,
                   cacheWrites>>
    /\ UNCHANGED <<atTimer, atShutdown>>
    /\ UNCHANGED apiVars

\* The setInterval callback of startBatchProcessor: `await flushBatch()`.
TimerFire ==
    /\ phase # "exited"
    /\ batchInterval
    /\ FlushBatch(tickBuffer, "timer", 0)
    /\ UNCHANGED <<batchInterval, submitted, pc, redisQ, redisOpen, redis,
                   published, store, phase, pushed, owedAtPush, cacheWrites>>
    /\ atTimer' = atTimer \cup Ids(tickBuffer)
    /\ UNCHANGED atShutdown
    /\ UNCHANGED apiVars

\* Mutant of AfterFlush: a rejected insert rejects the awaiting call.
AfterFlushThrows(outcome) == IF outcome = "ok" THEN "done" ELSE "rejected"

\* Where the processTick call that awaits flushBatch goes on when
\* flushBatch returns: the catch swallows the error, the call returns.
AfterFlush(outcome) == "done"

\* clickhouse.insert number w settles and flushBatch resumes.  The insert
\* resolves ("ok"), rejects without effect ("fail"), or rejects although
\* the rows were applied ("fail_applied", e.g. a timeout); the worker sees
\* the two rejections alike.  On a rejection the catch branch puts the
\* batch back.  Then the awaiting caller resumes: a processTick call
\* returns; shutdown sends QUIT.  limit bounds the number of rejections
\* explored.
InsertSettleWithin(limit, w, outcome) ==
    /\ phase # "exited"
    /\ w \in inflight
    /\ writes' = [writes EXCEPT ![w].result =
                                    IF outcome = "ok" THEN "ok" ELSE "fail"]
    /\ IF outcome = "ok"
       THEN tickBuffer' = tickBuffer
       ELSE /\ failures < limit
            /\ tickBuffer' = Unshift(tickBuffer, writes[w].batch)
    /\ IF outcome \in {"ok", "fail_applied"}
       THEN store' = store \o Rows(writes[w].batch)
       ELSE store' = store
    /\ pc' = IF writes[w].call # 0
             THEN [pc EXCEPT ![writes[w].call] = AfterFlush(outcome)]
             ELSE pc
    /\ IF writes[w].by = "shutdown"
       THEN /\ phase' = "quitting"
            /\ redisQ' = Append(redisQ, 0)
       ELSE UNCHANGED <<phase, redisQ>>
    /\ UNCHANGED <<batchInterval, submitted, redisOpen, redis, published,
                   pushed, owedAtPush, cacheWrites>>
    /\ UNCHANGED <<atTimer, atShutdown>>
    /\ UNCHANGED apiVars

\* An insert settles, within the number of rejections the model explores.
InsertSettle(w, outcome) == InsertSettleWithin(MaxFailures, w, outcome)

\* A background merge of the table's parts.
Merge ==
    /\ phase # "exited"
    /\ store # ReplacingMergeTree(store)
    /\ store' = ReplacingMergeTree(store)
    /\ UNCHANGED <<tickBuffer, batchInterval, submitted, pc, redisQ,
                   redisOpen, redis, published, writes, phase, pushed,
                   owedAtPush, cacheWrites>>
    /\ UNCHANGED <<atTimer, atShutdown>>
    /\ UNCHANGED apiVars

\* shutdown() up to its first await: the timer is cleared and the final
\* flushBatch is started; with an empty buffer flushBatch returns at once
\* and QUIT is sent.
Shutdown ==
    /\ phase = "running"
    /\ batchInterval' = FALSE
    /\ FlushBatch(tickBuffer, "shutdown", 0)
    /\ IF Len(tickBuffer) = 0
       THEN /\ phase' = "quitting"
            /\ redisQ' = Append(redisQ, 0)
       ELSE /\ phase' = "flushing"
            /\ redisQ' = redisQ
    /\ UNCHANGED <<submitted, pc, redisOpen, redis, published, store, pushed,
                   owedAtPush, cacheWrites>>
    /\ atShutdown' = Len(submitted)
    /\ UNCHANGED atTimer
    /\ UNCHANGED apiVars

\* Redis answers QUIT and closes the connection: the commands sent behind
\* it are rejected; shutdown resumes and calls clickhouse.close().
RedisQuitReply ==
    /\ phase = "quitting"
    /\ redisQ # <<>>
    /\ Head(redisQ) = 0
    /\ redisOpen' = FALSE
    /\ redisQ' = <<>>
    /\ pc' = [c \in 1..Len(pc) |->
                 IF c \in Range(Tail(redisQ)) THEN "rejected" ELSE pc[c]]
    /\ phase' = "closing"
    /\ UNCHANGED <<tickBuffer, batchInterval, submitted, redis, published,
                   writes, store, pushed, owedAtPush, cacheWrites>>
    /\ UNCHANGED <<atTimer, atShutdown>>
    /\ UNCHANGED apiVars

\* clickhouse.close() resolves and the signal handler calls process.exit(0).
ClickhouseClose ==
    /\ phase = "closing"
    /\ phase' = "exited"
    /\ UNCHANGED <<tickBuffer, batchInterval, submitted, pc, redisQ,
                   redisOpen, redis, published, writes, store, pushed,
                   owedAtPush, cacheWrites>>
    /\ UNCHANGED <<atTimer, atShutdown>>
    /\ UNCHANGED apiVars

Next ==
    \/ \E e \in Events, v \in Volumes :
           ProcessTick(e[1], Quote(Len(submitted) + 1), v, e[2])
    \/ \E ok \in BOOLEAN : RedisSetReply(ok)
    \/ \E ok \in BOOLEAN : RedisPublishReply(ok)
    \/ TimerFire
    \/ \E w \in inflight, o \in {"ok", "fail"} : InsertSettle(w, o)
    \/ Shutdown
    \/ RedisQuitReply
    \/ ClickhouseClose

\* The worker with inserts that either resolve or reject without effect.
Spec == Init /\ [][Next]_vars

\* The worker together with the behaviour of the table: an insert may be
\* rejected although its rows were applied, and parts are merged in the
\* background.
NextStore ==
    \/ Next
    \/ \E w \in inflight : InsertSettle(w, "fail_applied")
    \/ Merge

SpecStore == Init /\ [][NextStore]_vars

\* MarketTick.volume is a `number`: nothing keeps a feed from passing a
\* negative one.
Numbers == Volumes \cup {-1}

\* The worker fed by a source that may also hand it a tick with a negative
\* volume.
NextOpen ==
    \/ Next
    \/ \E v \in Numbers \ Volumes :
           ProcessTick("AAPL", Quote(Len(submitted) + 1), v, 1)

SpecOpen == Init /\ [][NextOpen]_vars

\* The worker while it runs (no signal arrives): the interval keeps firing
\* and, once the store has stopped failing, a pending insert resolves.
NextLive ==
    \/ \E e \in Events, v \in Volumes :
           ProcessTick(e[1], Quote(Len(submitted) + 1), v, e[2])
    \/ \E ok \in BOOLEAN : RedisSetReply(ok)
    \/ \E ok \in BOOLEAN : RedisPublishReply(ok)
    \/ TimerFire
    \/ \E w \in inflight, o \in {"ok", "fail"} : InsertSettle(w, o)

SpecLive ==
    /\ Init
    /\ [][NextLive]_vars
    /\ WF_vars(TimerFire)
    /\ WF_vars(\E w \in inflight : InsertSettle(w, "ok"))

\* Calls needed for a rejected batch to meet a newer tick in the buffer
\* with more than BATCH_SIZE ticks in all.
MaxBurst == BATCH_SIZE + 1

\* Rejections needed for two pending inserts to be both rejected.
MaxBurstFailures == MaxFailures + 1

\* The running worker fed one tick more than a batch holds, with a store
\* that may reject one insert more.
NextBurst ==
    \/ \E e \in Events, v \in Volumes :
           ProcessTickWithin(MaxBurst, e[1], Quote(Len(submitted) + 1), v,
                             e[2])
    \/ \E ok \in BOOLEAN : RedisSetReply(ok)
    \/ \E ok \in BOOLEAN : RedisPublishReply(ok)
    \/ TimerFire
    \/ \E w \in inflight, o \in {"ok", "fail"} :
           InsertSettleWithin(MaxBurstFailures, w, o)

SpecBurst == Init /\ [][NextBurst]_vars

\* -------------------------------------------------------- API: resolvers
\* The rows of `portfolios` a statement of the pool can see.  The policy
\* compares tenant_id with current_setting('app.current_tenant', true),
\* which no code sets: under the policy no row qualifies.
VisiblePortfolios == IF db.row_security THEN <<>> ELSE db.portfolios

\* SELECT ... FROM portfolios WHERE id = $1 AND tenant_id = $2
OwnedPortfolio(id, tenantId) ==
    SelectSeq(VisiblePortfolios,
              LAMBDA p : p.id = id /\ p.tenant_id = tenantId)

\* SELECT x.* FROM <rows> x JOIN portfolios p ON x.portfolio_id = p.id
\* WHERE x.portfolio_id = $1 AND p.tenant_id = $2
JoinOwned(rows, portfolioId, tenantId) ==
    SelectSeq(rows,
              LAMBDA x : /\ x.portfolio_id = portfolioId
                         /\ OwnedPortfolio(x.portfolio_id, tenantId) # <<>>)

\* SELECT ... FROM holdings WHERE portfolio_id = $1
HoldingsOf(portfolioId) ==
    SelectSeq(db.holdings, LAMBDA h : h.portfolio_id = portfolioId)

\* portfolio_id ... REFERENCES portfolios(id): the check of a foreign key
\* is not subject to row-level security.
References(portfolioId) ==
    \E i \in 1..Len(db.portfolios) : db.portfolios[i].id = portfolioId

\* The portfolios the rows of a result are attached to.
AttachedTo(rows) == {rows[i].portfolio_id : i \in 1..Len(rows)}

\* The resolver returns (error = "") or throws.
Respond(op, user, error, portfolios) ==
    response' = [op |-> op, tenant |-> user.tenantId, error |-> error,
                 portfolios |-> portfolios]

\* if (!user) throw new GraphQLError('Not authenticated')
NotAuthenticated(op, user) ==
    /\ user = Anonymous
    /\ Respond(op, user, "Not authenticated", {})
    /\ UNCHANGED <<db, outbox>>

\* Query.portfolios
QueryPortfolios(user) ==
    /\ \/ NotAuthenticated("portfolios", user)
       \/ /\ user # Anonymous
          /\ LET rows == SelectSeq(VisiblePortfolios,
                             LAMBDA p : /\ p.user_id = user.id
                                        /\ p.tenant_id = user.tenantId)
             IN  Respond("portfolios", user, "",
                         {rows[i].id : i \in 1..Len(rows)})
          /\ UNCHANGED <<db, outbox>>
    /\ UNCHANGED workerVars

\* Query.portfolio
QueryPortfolio(user, id) ==
    /\ \/ NotAuthenticated("portfolio", user)
       \/ /\ user # Anonymous
          /\ IF OwnedPortfolio(id, user.tenantId) = <<>>
             THEN Respond("portfolio", user, "Portfolio not found", {})
             ELSE Respond("portfolio", user, "", {id})
          /\ UNCHANGED <<db, outbox>>
    /\ UNCHANGED workerVars

\* Query.holdings.  The rows are enriched with prices from the cache,
\* which is market data and belongs to no tenant.
QueryHoldings(user, portfolioId) ==
    /\ \/ NotAuthenticated("holdings", user)
       \/ /\ user # Anonymous
          /\ Respond("holdings", user, "",
                     AttachedTo(JoinOwned(db.holdings, portfolioId,
                                          user.tenantId)))
          /\ UNCHANGED <<db, outbox>>
    /\ UNCHANGED workerVars

\* Query.riskMetrics
QueryRiskMetrics(user, portfolioId) ==
    /\ \/ NotAuthenticated("riskMetrics", user)
       \/ /\ user # Anonymous
          /\ Respond("riskMetrics", user, "",
                     AttachedTo(JoinOwned(db.risk_metrics, portfolioId,
                                          user.tenantId)))
          /\ UNCHANGED <<db, outbox>>
    /\ UNCHANGED workerVars

\* Query.reports
QueryReports(user, portfolioId) ==
    /\ \/ NotAuthenticated("reports", user)
       \/ /\ user # Anonymous
          /\ Respond("reports", user, "",
                     AttachedTo(JoinOwned(db.reports, portfolioId,
                                          user.tenantId)))
          /\ UNCHANGED <<db, outbox>>
    /\ UNCHANGED workerVars

\* Mutation.createPortfolio.  Under the policy the INSERT is refused: the
\* new row does not satisfy it.
CreatePortfolio(user) ==
    /\ Len(db.portfolios) < MaxPortfolios
    /\ \/ NotAuthenticated("createPortfolio", user)
       \/ /\ user # Anonymous
          /\ IF db.row_security
             THEN /\ Respond("createPortfolio", user,
                             "row-level security policy", {})
                  /\ UNCHANGED db
             ELSE LET id == Len(db.portfolios) + 1
                  IN  /\ db' = [db EXCEPT !.portfolios =
                                   Append(@, [id |-> id,
                                              user_id |-> user.id,
                                              tenant_id |-> user.tenantId])]
                      /\ Respond("createPortfolio", user, "", {id})
          /\ UNCHANGED outbox
    /\ UNCHANGED workerVars

\* The loop of importHoldings: one INSERT per holding, each its own
\* statement; the first one that violates CHECK (quantity > 0) throws and
\* leaves the earlier rows in the table.
RECURSIVE InsertHoldings(_, _, _)
InsertHoldings(rows, portfolioId, holdings) ==
    IF holdings = <<>> \/ Head(holdings).quantity <= 0
    THEN rows
    ELSE InsertHoldings(
             Append(rows, [portfolio_id |-> portfolioId,
                           symbol |-> ToUpperCase(Head(holdings).symbol),
                           quantity |-> Head(holdings).quantity]),
             portfolioId, Tail(holdings))

\* Mutation.importHoldings
ImportHoldings(user, portfolioId, holdings) ==
    /\ Len(db.holdings) + Len(holdings) <= MaxRows
    /\ \/ NotAuthenticated("importHoldings", user)
       \/ /\ user # Anonymous
          /\ IF OwnedPortfolio(portfolioId, user.tenantId) = <<>>
             THEN /\ Respond("importHoldings", user, "Portfolio not found",
                             {})
                  /\ UNCHANGED db
             ELSE LET rows == InsertHoldings(db.holdings, portfolioId,
                                             holdings)
                  IN  /\ db' = [db EXCEPT !.holdings = rows]
                      /\ IF Len(rows) = Len(db.holdings) + Len(holdings)
                         THEN Respond("importHoldings", user, "",
                                      {portfolioId})
                         ELSE Respond("importHoldings", user,
                                      "check constraint", {})
          /\ UNCHANGED outbox
    /\ UNCHANGED workerVars

\* Mutation.generateReport: the quota of the caller's tenant is tested,
\* then the report row is inserted for the portfolio id as given, the
\* simulation task is queued and the progress event is published.
GenerateReport(user, portfolioId, iterations) ==
    /\ Len(db.reports) < MaxRows
    /\ \/ NotAuthenticated("generateReport", user)
       \/ /\ user # Anonymous
          /\ IF db.tenant_usage[user.tenantId].reports_generated
                    >= ReportQuota
             THEN /\ Respond("generateReport", user,
                             "Monthly report quota exceeded", {})
                  /\ UNCHANGED <<db, outbox>>
             ELSE IF ~References(portfolioId)
             THEN /\ Respond("generateReport", user,
                             "foreign key constraint", {})
                  /\ UNCHANGED <<db, outbox>>
             ELSE LET reportId == Len(db.reports) + 1
                  IN  /\ db' = [db EXCEPT !.reports =
                                   Append(@, [id |-> reportId,
                                              portfolio_id |-> portfolioId,
                                              status |-> "PENDING",
                                              iterations |-> iterations])]
                      /\ outbox' = outbox \o
                             <<[to |-> "tasks.monte_carlo.run_simulation",
                                args |-> <<reportId, portfolioId,
                                           iterations>>],
                               [to |-> "REPORT_PROGRESS",
                                args |-> <<reportId, "PENDING">>]>>
                      /\ Respond("generateReport", user, "", {portfolioId})
    /\ UNCHANGED workerVars

\* The symbols of ORDER BY h.quantity DESC LIMIT 5, as a set: fewer rows
\* than the limit are explored, so the limit cuts nothing.
TopSymbols(rows) == {rows[i].symbol : i \in 1..Len(rows)}

\* Calls of the RAG service made so far.
RagCalls ==
    Cardinality({i \in 1..Len(outbox) :
                    outbox[i].to = "ragService.queryEarnings"})

\* Mutation.queryEarningsImpact: the symbols of the caller's holdings go
\* to the RAG service and the tokens of the answer are added to the usage
\* of the caller's tenant.
QueryEarningsImpact(user, portfolioId, tokens) ==
    /\ RagCalls < MaxAnswers
    /\ \/ NotAuthenticated("queryEarningsImpact", user)
       \/ /\ user # Anonymous
          /\ LET rows == JoinOwned(db.holdings, portfolioId, user.tenantId)
             IN  IF rows = <<>>
                 THEN /\ Respond("queryEarningsImpact", user,
                                 "No holdings found", {})
                      /\ UNCHANGED <<db, outbox>>
                 ELSE /\ outbox' = Append(outbox,
                             [to |-> "ragService.queryEarnings",
                              args |-> TopSymbols(rows)])
                      /\ db' = [db EXCEPT
                                   !.tenant_usage[user.tenantId]
                                     .llm_tokens_used = @ + tokens]
                      /\ Respond("queryEarningsImpact", user, "",
                                 {portfolioId})
    /\ UNCHANGED workerVars

\* The portfolio rows a client can select fields of: those the last
\* response returned.
Parents ==
    IF response.op \in {"portfolios", "portfolio", "createPortfolio"}
    THEN response.portfolios
    ELSE {}

\* Portfolio.holdings: the field resolver reads the holdings of the
\* portfolio row it is given; it has no user and no tenant test.
PortfolioHoldings(parent) ==
    /\ parent \in Parents
    /\ response' = [response EXCEPT
                       !.op = "Portfolio.holdings",
                       !.portfolios = AttachedTo(HoldingsOf(parent))]
    /\ UNCHANGED <<db, outbox>>
    /\ UNCHANGED workerVars

\* Portfolio.currentValue: sums quantity times cached price over the
\* holdings of the portfolio row it is given.
PortfolioCurrentValue(parent) ==
    /\ parent \in Parents
    /\ response' = [response EXCEPT
                       !.op = "Portfolio.currentValue",
                       !.portfolios = AttachedTo(HoldingsOf(parent))]
    /\ UNCHANGED <<db, outbox>>
    /\ UNCHANGED workerVars

NextApi ==
    \/ \E user \in Callers : QueryPortfolios(user)
    \/ \E user \in Callers, id \in PortfolioIds : QueryPortfolio(user, id)
    \/ \E user \in Callers, id \in PortfolioIds : QueryHoldings(user, id)
    \/ \E user \in Callers, id \in PortfolioIds : QueryRiskMetrics(user, id)
    \/ \E user \in Callers, id \in PortfolioIds : QueryReports(user, id)
    \/ \E user \in Callers : CreatePortfolio(user)
    \/ \E user \in Callers, id \in PortfolioIds, h \in HoldingInputs :
           ImportHoldings(user, id, h)
    \/ \E user \in Callers, id \in PortfolioIds, n \in Iterations :
           GenerateReport(user, id, n)
    \/ \E user \in Callers, id \in PortfolioIds, t \in AnswerTokens :
           QueryEarningsImpact(user, id, t)
    \/ \E parent \in PortfolioIds : PortfolioHoldings(parent)
    \/ \E parent \in PortfolioIds : PortfolioCurrentValue(parent)

\* The API over a database with or without the policy in force and with
\* either tenant below or at its report quota.
InitApi ==
    /\ InitIngestor
    /\ db \in {Database(rls, generated) :
                  rls \in BOOLEAN,
                  generated \in [Tenants -> {0, ReportQuota}]}
    /\ outbox = <<>>
    /\ response = NoResponse

SpecApi == InitApi /\ [][NextApi]_vars

TypeOK ==
    /\ tickBuffer \in Seq(Range(submitted))
    /\ batchInterval \in BOOLEAN
    /\ Len(pc) = Len(submitted)
    /\ \A c \in 1..Len(pc) :
           pc[c] \in {"set_price", "set_ts", "publish", "flush", "done",
                      "rejected"}
    /\ phase \in {"running", "flushing", "quitting", "closing", "exited"}
    /\ failures \in 0..MaxFailures

\* ------------------------------------------------------------ properties
\* Ids of the ticks carried by inserts that have not settled.
InFlightIds == UNION {Ids(writes[w].batch) : w \in inflight}

\* The batches handed to clickhouse.insert, in call order.
Batches == [w \in 1..Len(writes) |-> writes[w].batch]

\* The ticks whose processTick call reached the push, in call order.
Ingested == SelectSeq(submitted, LAMBDA t : pc[t.id] \in {"flush", "done"})

\* Inserts started by the timer or by shutdown.
NonThreshold == {w \in 1..Len(writes) : writes[w].by # "threshold"}

\* C1: a rejected insert loses nothing.  Every tick that was in a rejected
\* insert and has not been acknowledged since is in tickBuffer again, or
\* is being retried by an insert that has not settled.
C1_FailedBatchRequeued ==
    \A id \in failedEver \ acked : id \in Ids(tickBuffer) \cup InFlightIds

\* C1 witness: an insert was rejected and all its ticks are in the buffer.
C1_Witness ==
    /\ failures > 0
    /\ failedEver \subseteq Ids(tickBuffer)

\* C2: at most one insert is in flight at any time.
C2_SingleWriter == Cardinality(inflight) <= 1

\* C3: while no insert has been rejected, the batches handed to the writer,
\* concatenated in call order, are a prefix of the ingested ticks in call
\* order, and are all of them once the buffer is empty.
C3_StoreReceivesIngested ==
    failures = 0 =>
        /\ IsPrefix(Flatten(Batches), Ingested)
        /\ (tickBuffer = <<>> => Flatten(Batches) = Ingested)

\* C3 witness: every tick was ingested and handed over in several batches.
C3_Witness ==
    /\ failures = 0
    /\ Len(Ingested) = MaxTicks
    /\ Len(writes) >= 2
    /\ tickBuffer = <<>>
    /\ inflight = {}

RowsOf(rows, t) == SelectSeq(rows, LAMBDA r : OrderBy(r) = OrderBy(Row(t)))

\* C5: re-writing is idempotent.  Once merged, the table holds exactly one
\* row for every tick whose insert resolved, also when an earlier insert
\* of that tick was rejected after its rows had been applied; a tick whose
\* (symbol, timestamp) no other ingested tick shares is stored unchanged.
C5_IdempotentRewrite ==
    LET merged == ReplacingMergeTree(store)
    IN  \A i \in {k \in 1..Len(pushed) : pushed[k].id \in acked} :
            LET t == pushed[i]
                stored == RowsOf(merged, t)
            IN  /\ Len(stored) = 1
                /\ (\A j \in 1..Len(pushed) :
                        j # i => OrderBy(Row(pushed[j])) # OrderBy(Row(t)))
                       => stored[1] = Row(t)

\* C5 witness: the insert of a tick was rejected with its row applied and
\* its retry resolved, so the table holds the row twice until the merge
\* that leaves it once.
C5_Witness ==
    \E i \in 1..Len(pushed) :
        /\ pushed[i].id \in failedEver \cap acked
        /\ RowsOf(store, pushed[i]) = <<Row(pushed[i]), Row(pushed[i])>>
        /\ RowsOf(ReplacingMergeTree(store), pushed[i]) = <<Row(pushed[i])>>

\* C6: a tick pushed after a batch was rejected is never acknowledged
\* before every tick of that batch has been acknowledged.
C6_NoOvertaking ==
    \A id \in acked : owedAtPush[id] \subseteq acked

\* C7: the step that handles a rejected insert leaves the rejected batch,
\* in its order, at the head of the buffer, followed by the buffer as it
\* was, which holds the ticks pushed while the insert was in flight.
C7_RequeueFront ==
    [][\A w \in inflight :
           (w \notin inflight' /\ writes'[w].result = "fail") =>
               LET b == writes[w].batch
               IN  /\ Len(tickBuffer') = Len(b) + Len(tickBuffer)
                   /\ SubSeq(tickBuffer', 1, Len(b)) = b
                   /\ SubSeq(tickBuffer', Len(b) + 1, Len(tickBuffer'))
                          = tickBuffer]_vars

\* C7 witness: a rejected batch heads the buffer and is followed by a tick
\* that was pushed before the rejection, while the insert was in flight.
C7_Witness ==
    \E w \in failed :
        LET b == writes[w].batch
        IN  /\ Len(tickBuffer) > Len(b)
            /\ SubSeq(tickBuffer, 1, Len(b)) = b
            /\ tickBuffer[Len(b) + 1].id \notin failedEver
            /\ owedAtPush[tickBuffer[Len(b) + 1].id] = {}

\* C8: every tick in the buffer, in an insert in flight or acknowledged had
\* both its cache keys written before.
C8_CachedBeforeAccepted ==
    \A id \in Ids(tickBuffer) \cup InFlightIds \cup acked :
        /\ <<id, PriceKey(submitted[id].symbol)>> \in cacheWrites
        /\ <<id, TimestampKey(submitted[id].symbol)>> \in cacheWrites

\* C8 witness: one tick is acknowledged and another is back in the buffer
\* after its insert was rejected.
C8_Witness ==
    /\ acked # {}
    /\ failedEver \ acked # {}
    /\ failedEver \ acked \subseteq Ids(tickBuffer)

\* C9: a processTick call whose cache update or publish failed still
\* appends its tick to the buffer.
C9_FailureAbsorbed ==
    \A c \in 1..Len(pc) : pc[c] = "rejected" => c \in Ids(pushed)

\* C10: the cached price and timestamp of an instrument are both unset or
\* are those of one tick.
C10_NoTornCache ==
    \A sym \in Symbols :
        \/ /\ redis[PriceKey(sym)] = Absent
           /\ redis[TimestampKey(sym)] = Absent
        \/ \E i \in 1..Len(submitted) :
               /\ submitted[i].symbol = sym
               /\ submitted[i].price = redis[PriceKey(sym)]
               /\ submitted[i].timestamp = redis[TimestampKey(sym)]

\* Ids of the ticks that were handed to clickhouse.insert at least once.
AttemptedIds == UNION {Ids(writes[w].batch) : w \in 1..Len(writes)}

\* C11: every tick that a timer firing found in the buffer is in an insert
\* started by that firing at the latest, also when an earlier insert was
\* still pending at the firing.
C11_FlushAtTimer == atTimer \subseteq AttemptedIds

\* C11 witness: the timer started an insert for the ticks it found while
\* an earlier insert was still pending.
C11_Witness ==
    \E w1 \in inflight, w2 \in inflight :
        /\ w1 < w2
        /\ writes[w2].by = "timer"
        /\ Ids(writes[w2].batch) \subseteq atTimer

\* C12: a pending insert never blocks ingestion.  While an insert is
\* pending, a new processTick call can be made, and the call whose Redis
\* command is answered next can resume: write the cache, publish and push.
C12_IngestNotBlocked ==
    (inflight # {} /\ phase # "exited") =>
        /\ Len(submitted) < MaxTicks =>
               ENABLED ProcessTick("AAPL", Quote(Len(submitted) + 1), 100, 1)
        /\ (redisQ # <<>> /\ Head(redisQ) # 0) =>
               ENABLED (RedisSetReply(TRUE) \/ RedisPublishReply(TRUE))

\* C12 witness: with no rejected insert so far, the latest insert is
\* pending and a tick pushed after its batch was taken is in the buffer.
C12_Witness ==
    /\ failures = 0
    /\ writes # <<>>
    /\ Len(writes) \in inflight
    /\ tickBuffer # <<>>

\* shutdown() has gone past its final flushBatch and releases connections.
Releasing == phase \in {"quitting", "closing", "exited"}

\* C13: when shutdown releases the connections, no tick of a rejected
\* shutdown insert is left in the buffer (the final flush is repeated).
C13_DrainUntilEmpty ==
    Releasing =>
        \A w \in failed :
            writes[w].by = "shutdown" =>
                Ids(writes[w].batch) \cap Ids(tickBuffer) = {}

\* C14: when shutdown releases the connections, no insert that was pending
\* when shutdown began is still pending; stated for the inserts started by
\* the timer, which all begin before shutdown clears the interval.
C14_ShutdownAwaitsWrite ==
    Releasing => \A w \in inflight : writes[w].by # "timer"

\* C15: a processTick call made once shutdown has begun writes no cache
\* key, publishes nothing and pushes nothing, and the timer is disarmed.
C15_NoIngestAfterShutdown ==
    /\ phase # "running" => ~batchInterval
    /\ \A c \in 1..Len(submitted) :
           (atShutdown >= 0 /\ c > atShutdown) =>
               /\ c \notin Ids(pushed)
               /\ c \notin Ids(published)
               /\ \A k \in Keys : <<c, k>> \notin cacheWrites

\* C16: a processTick call given a tick with a negative volume never
\* completes normally and leaves no trace in the cache, the published
\* stream or the buffer.
C16_MalformedRejected ==
    \A c \in 1..Len(submitted) :
        submitted[c].volume < 0 =>
            /\ pc[c] \notin {"flush", "done"}
            /\ c \notin Ids(pushed)
            /\ c \notin Ids(published)
            /\ \A k \in Keys : <<c, k>> \notin cacheWrites

\* C17: while the worker runs, every tick pushed onto the buffer is
\* eventually part of an insert that resolved, however often (within the
\* failure budget) inserts were rejected before.
C17_RetriedUntilWritten ==
    \A id \in 1..MaxTicks : (id \in Ids(pushed)) ~> (id \in acked)

\* A tick of a rejected insert was written by a later one.
C17_Witness == failedEver \cap acked # {}

\* The processTick calls that returned normally past their cache writes.
Completed == {c \in 1..Len(submitted) : pc[c] \in {"flush", "done"}}

\* The calls made for the symbol of call c, c itself or later.
SameSymbolFrom(c) ==
    {d \in c..Len(submitted) : submitted[d].symbol = submitted[c].symbol}

\* C18 as stated: once processTick(t) has completed, the cached timestamp
\* of t.symbol is never older than t.timestamp.
C18_CacheMonotonic ==
    \A c \in Completed :
        redis[TimestampKey(submitted[c].symbol)] >= submitted[c].timestamp

\* C18 amended: once processTick(t) has completed, the cached price and
\* the cached timestamp of t.symbol are each that of t or of a tick for
\* the symbol handed to processTick after t (last delivered wins).
C18_LastDeliveredWins ==
    \A c \in Completed :
        /\ \E d \in SameSymbolFrom(c) :
               redis[PriceKey(submitted[c].symbol)] = submitted[d].price
        /\ \E d \in SameSymbolFrom(c) :
               redis[TimestampKey(submitted[c].symbol)] = submitted[d].timestamp

\* A completed call has replaced a later timestamp by an earlier one.
C18_Witness ==
    \E c \in Completed, d \in Completed :
        /\ c < d
        /\ submitted[c].symbol = submitted[d].symbol
        /\ submitted[c].timestamp > submitted[d].timestamp
        /\ redis[TimestampKey(submitted[d].symbol)] = submitted[d].timestamp
        /\ redis[PriceKey(submitted[d].symbol)] = submitted[d].price

\* C19: once processTick(t) has completed and no later call for t.symbol
\* has been made, a marketPrice lookup of t.symbol returns exactly t's
\* price and t's timestamp.
C19_LookupReturnsLast ==
    \A c \in Completed :
        SameSymbolFrom(c) = {c} =>
            \A now \in RequestTimes :
                marketPrice(submitted[c].symbol, now) =
                    [symbol |-> submitted[c].symbol,
                     price |-> submitted[c].price,
                     timestamp |-> submitted[c].timestamp]

\* C20: no batch handed to clickhouse.insert is empty, and with an empty
\* buffer and no tick being pushed no insert is started and the buffer
\* stays as it is unless a rejected batch is put back.
C20_NoEmptyBatch ==
    /\ [](\A w \in 1..Len(writes) : writes[w].batch # <<>>)
    /\ [][(tickBuffer = <<>> /\ pushed' = pushed) =>
              /\ Len(writes') = Len(writes)
              /\ (tickBuffer' # <<>> => failed' # failed)]_vars

\* shutdown's final flushBatch found the buffer empty after ticks had been
\* flushed before: it started no insert.
C20_Witness ==
    /\ phase # "running"
    /\ pushed # <<>>
    /\ \A w \in 1..Len(writes) : writes[w].by # "shutdown"

\* Number of positions of the buffer that hold tick id.
InBuffer(id) == Cardinality({i \in 1..Len(tickBuffer) : tickBuffer[i].id = id})

\* The pending inserts whose batch holds tick id.
InFlightWith(id) == {w \in inflight : id \in Ids(writes[w].batch)}

\* C21: every pushed tick is in exactly one place: once in the buffer, or
\* in the batch of exactly one pending insert, or in an insert that
\* resolved.
C21_OnePlace ==
    \A id \in Ids(pushed) :
        \/ InBuffer(id) = 1 /\ InFlightWith(id) = {} /\ id \notin acked
        \/ InBuffer(id) = 0 /\ Cardinality(InFlightWith(id)) = 1
                            /\ id \notin acked
        \/ InBuffer(id) = 0 /\ InFlightWith(id) = {} /\ id \in acked

\* A requeued tick is in flight again while a newer tick waits in the
\* buffer.
C21_Witness ==
    /\ tickBuffer # <<>>
    /\ \E w \in inflight : Ids(writes[w].batch) \cap failedEver # {}

\* C22: once inserts have been rejected as often as the store fails and a
\* rejected batch still awaits its retry, a processTick call that starts
\* is turned away at once instead of sending its first cache write.
C22_BreakerPauses ==
    [][(phase = "running" /\ failures >= MaxFailures /\ Owed # {}
            /\ Len(submitted') > Len(submitted)) =>
          pc'[Len(submitted')] = "rejected"]_vars

\* The processTick calls that have started and not yet returned.
InProgress ==
    {c \in 1..Len(submitted) :
        pc[c] \in {"set_price", "set_ts", "publish", "flush"}}

\* C24: at most one processTick call is in progress at any moment.
C24_OneAtATime == Cardinality(InProgress) <= 1

\* C25: an insert that has resolved was not started after an insert that is
\* still pending: batches become durable in the order they were taken.
C25_DurableInFlushOrder ==
    \A w1 \in 1..Len(writes), w2 \in 1..Len(writes) :
        (w1 < w2 /\ writes[w2].result = "ok") => writes[w1].result # "pending"

\* C26: no batch handed to clickhouse.insert holds more than BATCH_SIZE
\* ticks.
C26_BatchBounded ==
    \A w \in 1..Len(writes) : Len(writes[w].batch) <= BATCH_SIZE

\* Position of tick id in the order of the pushes.
PushIndex(id) == CHOOSE i \in 1..Len(pushed) : pushed[i].id = id

\* C27: the ticks in the buffer are in the order in which they were
\* pushed.
C27_BufferInArrivalOrder ==
    \A i \in 1..Len(tickBuffer), j \in 1..Len(tickBuffer) :
        i < j => PushIndex(tickBuffer[i].id) < PushIndex(tickBuffer[j].id)

\* C28: a processTick call that awaits the insert it triggered is suspended
\* exactly as long as that insert is pending and then returns normally,
\* also when the insert was rejected; a rejection puts the batch back and
\* touches neither the cache, the channel nor the table.
C28_FailureNotSurfaced ==
    /\ [](\A w \in 1..Len(writes) :
             writes[w].call # 0 =>
                 /\ writes[w].result = "pending" =>
                        pc[writes[w].call] = "flush"
                 /\ writes[w].result # "pending" =>
                        pc[writes[w].call] = "done")
    /\ [][\A w \in inflight :
              writes'[w].result = "fail" =>
                  /\ tickBuffer' = writes[w].batch \o tickBuffer
                  /\ redis' = redis
                  /\ published' = published
                  /\ store' = store]_vars

\* The insert triggered at the threshold was rejected and the call that
\* awaited it has returned.
C28_Witness ==
    \E w \in failed :
        /\ writes[w].call # 0
        /\ pc[writes[w].call] = "done"
        /\ IsPrefix(writes[w].batch, tickBuffer)

\* C29: if no insert was rejected, then once shutdown() has returned the
\* buffer is empty, no insert is pending and every tick pushed by a
\* processTick call made before shutdown began is in a resolved insert.
C29_ShutdownLeavesNothing ==
    (phase = "exited" /\ failures = 0) =>
        /\ tickBuffer = <<>>
        /\ inflight = {}
        /\ \A c \in 1..atShutdown : c \in Ids(pushed) => c \in acked

\* Number of messages on the channel that carry tick id.
TimesPublished(id) ==
    Cardinality({i \in 1..Len(published) : published[i].id = id})

\* C30: every pushed tick was published exactly once and no tick more than
\* once; a cache key changes only by the first SET of that key by some
\* call; and a step that starts an insert without a push, or settles one,
\* leaves the cache and the channel as they are.
C30_RetriesTouchStoreOnly ==
    /\ [](/\ \A id \in Ids(pushed) : TimesPublished(id) = 1
          /\ \A id \in Ids(submitted) : TimesPublished(id) <= 1)
    /\ [][\A k \in Keys :
              redis'[k] # redis[k] =>
                  \E c \in 1..Len(submitted) :
                      <<c, k>> \in cacheWrites' \ cacheWrites]_vars
    /\ [][(pushed' = pushed /\ writes' # writes) =>
              /\ redis' = redis
              /\ cacheWrites' = cacheWrites
              /\ published' = published]_vars

\* A tick whose insert was rejected has been written by a retry and is on
\* the channel once, its cache keys written once.
C30_Witness ==
    \E id \in failedEver \cap acked :
        /\ TimesPublished(id) = 1
        /\ <<id, PriceKey(submitted[id].symbol)>> \in cacheWrites
        /\ Cardinality({w \in 1..Len(writes) : id \in Ids(writes[w].batch)})
               >= 2

\* The tenant a portfolio belongs to.
TenantOf(portfolioId) ==
    LET i == CHOOSE i \in 1..Len(db.portfolios) :
                 db.portfolios[i].id = portfolioId
    IN  db.portfolios[i].tenant_id

\* C23: whatever a resolver returned or created for a caller is attached
\* to a portfolio of the caller's tenant.
C23_TenantIsolation ==
    \A p \in response.portfolios : TenantOf(p) = response.tenant

====
